---- MODULE Spec2Model ----
(***************************************************************************)
(* backend/scripts/print_upload_docs.py: a diagnostic script that loads    *)
(* backend/.env, connects to MongoDB, resolves the database, prints up to  *)
(* 50 documents of 'uploadmasters' and of 'uploadconsents', and closes the *)
(* client.  Strings the script inspects (the connection string, database   *)
(* names) are sequences of one-character strings, so that split() and the  *)
(* name checks are computed character by character.                        *)
(***************************************************************************)
EXTENDS Integers, Sequences, FiniteSets, TLC

VARIABLES
    pc,             \* position of main()
    envFileExists,  \* file system: does backend/.env exist
    fileValue,      \* file system: value backend/.env gives MONGODB_URI, or None
    environ,        \* os.environ's value of MONGODB_URI, or None
    data,           \* the server: collection name -> documents in natural order
    uri,            \* local `uri`
    client,         \* "none" (never created), "open", "closed"
    db,             \* name of the local `db`, or None
    masters,        \* local `masters`, or None before line 84
    consents,       \* local `consents`, or None before line 91
    out,            \* what the process has printed so far
    calls,          \* the calls to the outside the process has made so far
    exitCode        \* <<>> while running, <<0>> or <<1>> once the process ended

vars == <<pc, envFileExists, fileValue, environ, data, uri, client, db,
          masters, consents, out, calls, exitCode>>

---------------------------------------------------------------------------
\* Bounds of the model.

\* Collections hold up to 50 + Over documents.
Over == 2
\* Database names written in a connection string have up to MaxNameLen characters.
MaxNameLen == 1

---------------------------------------------------------------------------
\* Program constants.

\* limit(51) at line 84: an off-by-one in the sample size.
MastersLimitOffByOne == 50 + 1
MastersLimit == 50
ConsentsLimit == 50

\* Python's None; distinct from every string, '' (<<>>) included.
None == <<"None">>

EnvPath == "backend/.env"
UploadMasters == "uploadmasters"
UploadConsents == "uploadconsents"
Collections == {UploadMasters, UploadConsents}

---------------------------------------------------------------------------
\* Strings.

Max(a, b) == IF a >= b THEN a ELSE b
Min(a, b) == IF a <= b THEN a ELSE b

\* Index of the first c in s, 0 when there is none.
IndexOf(s, c) ==
    IF \E i \in 1..Len(s) : s[i] = c
    THEN CHOOSE i \in 1..Len(s) : s[i] = c /\ \A j \in 1..(i - 1) : s[j] # c
    ELSE 0

\* Index of the last c in s, 0 when there is none.
LastIndexOf(s, c) ==
    IF \E i \in 1..Len(s) : s[i] = c
    THEN CHOOSE i \in 1..Len(s) : s[i] = c /\ \A j \in (i + 1)..Len(s) : s[j] # c
    ELSE 0

\* s.split(c)[-1]
SplitLast(s, c) == SubSeq(s, LastIndexOf(s, c) + 1, Len(s))

\* s.split(c)[0]
SplitFirst(s, c) ==
    IF IndexOf(s, c) = 0 THEN s ELSE SubSeq(s, 1, IndexOf(s, c) - 1)

\* s.partition(c)[2]
AfterFirst(s, c) ==
    IF IndexOf(s, c) = 0 THEN <<>> ELSE SubSeq(s, IndexOf(s, c) + 1, Len(s))

Contains(s, c) == \E i \in 1..Len(s) : s[i] = c

\* Python truthiness of an optional string / of a list.
Falsy(v) == v = None \/ v = <<>>

RECURSIVE SeqsUpTo(_, _)
\* All sequences over S of length 0..n.
SeqsUpTo(S, n) ==
    IF n = 0 THEN {<<>>}
    ELSE LET shorter == SeqsUpTo(S, n - 1)
         IN  shorter \cup {Append(s, c) : s \in shorter, c \in S}

---------------------------------------------------------------------------
\* The connection strings of the model: mongodb://<host>[/<dbname>][?o]

Scheme == <<"m", "o", "n", "g", "o", "d", "b", ":", "/", "/">>
Hosts == {<<"h">>, <<"h", ":", "1">>, <<"h", ".", "c">>}
NameChars == {"d"}
DbNames == SeqsUpTo(NameChars, MaxNameLen)
Options == {<<>>, <<"?", "o">>}
Tails == Options \cup {<<"/">> \o n \o o : n \in DbNames, o \in Options}
URIs == {Scheme \o h \o t : h \in Hosts, t \in Tails}

\* What backend/.env can give MONGODB_URI: nothing, the empty string, a URI.
FileValues == {None, <<>>} \cup URIs
\* What the invoking shell can have exported as MONGODB_URI.
ShellURI == Scheme \o <<"h", "/", "d">>
ShellValues == {None, ShellURI}

\* The database of the server that holds the two collections.
ServerDb == <<"d">>
MaxDocs == Max(MastersLimit, ConsentsLimit) + Over
Doc(coll, i) == [coll |-> coll, id |-> i]
Docs(coll, n) == [i \in 1..n |-> Doc(coll, i)]

---------------------------------------------------------------------------
\* The client library, as the script relies on it.

\* MongoClient(uri): the part of the connection string before the first '/'
\* after the scheme names the hosts; it must not be empty, and options need
\* a '/' between the host list and the '?'.
SchemeFree(u) == SubSeq(u, Len(Scheme) + 1, Len(u))
HostPart(u) == SplitFirst(SchemeFree(u), "/")
PathPart(u) == AfterFirst(SchemeFree(u), "/")
ValidURI(u) ==
    /\ Len(u) >= Len(Scheme)
    /\ SubSeq(u, 1, Len(Scheme)) = Scheme
    /\ HostPart(u) # <<>>
    /\ ~Contains(HostPart(u), "?")

\* client.get_default_database(): the database the connection string names
\* between the '/' after the hosts and the '?', None (ConfigurationError,
\* caught at line 61) when it names none.
DefaultDatabaseName(u) ==
    LET dbase == SplitFirst(PathPart(u), "?")
    IN  IF dbase = <<>> THEN None ELSE SplitFirst(dbase, ".")

\* client[dbname] raises InvalidName for the empty name and for a name that
\* holds one of these characters.
BadDbChars == {" ", ".", "$", "/", "\\", "\""}
ValidDbName(n) == n # <<>> /\ \A i \in 1..Len(n) : n[i] \notin BadDbChars

\* What an unfiltered find() on a collection of a database returns: the
\* documents in natural order; a database the server does not hold has none.
Find(dbname, coll) == IF dbname = ServerDb THEN data[coll] ELSE <<>>

\* cursor.limit(n)
LimitTo(docs, n) == SubSeq(docs, 1, Min(Len(docs), n))

\* bson.json_util.dumps(docs, indent=2): one JSON text holding the documents
\* in order.
dumps(docs) == <<"json", docs>>

---------------------------------------------------------------------------
\* What the script prints.

EnvFileNotFoundMsg == <<"Env file not found at", EnvPath>>
UriNotSetMsg == <<"MONGODB_URI not set in backend/.env">>
ConnectingMsg == <<"Connecting to MongoDB...">>
ConnectFailedMsg(e) == <<"Failed to connect to MongoDB:", e>>
ResolveFailedMsg == <<"Could not determine database from URI.">>
ErrorMsg(e) == <<"Error:", e>>
ConnectedMsg(name) == <<"Connected to database:", name>>
MastersHeader == <<"--- UploadMaster documents (up to 50) ---">>
NoMastersMsg == <<"(no UploadMaster documents found)">>
ConsentsHeader == <<"--- UploadConsent documents (up to 50) ---">>
NoConsentsMsg == <<"(no UploadConsent documents found)">>
DoneMsg == <<"Done.">>
\* An exception main() does not catch: the interpreter prints the traceback
\* and the process ends with code 1.
Traceback(e) == <<"Traceback", e>>

\* The calls the script makes.
ExistsCall == <<"exists", EnvPath>>
LoadDotenvCall == <<"load_dotenv", EnvPath>>
EnvironGetCall == <<"environ.get", "MONGODB_URI">>
MongoClientCall(u) == <<"MongoClient", u>>
PingCall(ok) == <<"ping", ok>>
GetDefaultDatabaseCall == <<"get_default_database">>
SplitCall(u) == <<"split", u>>
GetItemCall(n) == <<"getitem", n>>
FindCall(dbname, coll, limit, ok) == <<"find", dbname, coll, limit, ok>>
CloseCall == <<"close">>

---------------------------------------------------------------------------
Init ==
    /\ pc = "start"
    /\ envFileExists \in BOOLEAN
    /\ fileValue \in (IF envFileExists THEN FileValues ELSE {None})
    /\ environ \in ShellValues
    /\ \E n1 \in 0..MaxDocs, n2 \in 0..MaxDocs :
            data = [c \in Collections |->
                        IF c = UploadMasters THEN Docs(c, n1) ELSE Docs(c, n2)]
    /\ uri = None
    /\ client = "none"
    /\ db = None
    /\ masters = None
    /\ consents = None
    /\ out = <<>>
    /\ calls = <<>>
    /\ exitCode = <<>>

\* sys.exit(code), or the end of the process.
Exit(code) == pc' = "exited" /\ exitCode' = <<code>>

\* Lines 34-39 without the sys.exit(1) of line 39.
CheckEnvFileNoExit ==
    /\ pc = "start"
    /\ calls' = Append(calls, ExistsCall)
    /\ out' = IF ~envFileExists THEN Append(out, EnvFileNotFoundMsg) ELSE out
    /\ pc' = "load"
    /\ UNCHANGED <<envFileExists, fileValue, environ, data, uri, client, db,
                   masters, consents, exitCode>>

\* Lines 34-39: the env file must exist.
CheckEnvFile ==
    /\ pc = "start"
    /\ calls' = Append(calls, ExistsCall)
    /\ IF ~envFileExists
       THEN out' = Append(out, EnvFileNotFoundMsg) /\ Exit(1)
       ELSE out' = out /\ pc' = "load" /\ exitCode' = exitCode
    /\ UNCHANGED <<envFileExists, fileValue, environ, data, uri, client, db,
                   masters, consents>>

\* load_dotenv(env_path) with its default override=False: a variable the
\* environment already holds keeps its value.
LoadedEnviron(env, file) == IF env # None THEN env ELSE file

\* Line 41.
LoadDotenv ==
    /\ pc = "load"
    /\ environ' = LoadedEnviron(environ, fileValue)
    /\ calls' = Append(calls, LoadDotenvCall)
    /\ pc' = "getenv"
    /\ UNCHANGED <<envFileExists, fileValue, data, uri, client, db, masters,
                   consents, out, exitCode>>

\* Lines 43-46.
GetUri ==
    /\ pc = "getenv"
    /\ uri' = environ
    /\ calls' = Append(calls, EnvironGetCall)
    /\ IF Falsy(environ)
       THEN out' = Append(out, UriNotSetMsg) /\ Exit(1)
       ELSE out' = out /\ pc' = "connect" /\ exitCode' = exitCode
    /\ UNCHANGED <<envFileExists, fileValue, environ, data, client, db,
                   masters, consents>>

\* Lines 48-50 (and 53-55 when MongoClient raises).
Connect ==
    /\ pc = "connect"
    /\ calls' = Append(calls, MongoClientCall(uri))
    /\ IF ValidURI(uri)
       THEN /\ client' = "open"
            /\ out' = Append(out, ConnectingMsg)
            /\ pc' = "ping"
            /\ exitCode' = exitCode
       ELSE /\ client' = client
            /\ out' = out \o <<ConnectingMsg, ConnectFailedMsg("InvalidURI")>>
            /\ Exit(1)
    /\ UNCHANGED <<envFileExists, fileValue, environ, data, uri, db, masters,
                   consents>>

\* Line 52 without the sys.exit(1) of line 55.
PingNoExit ==
    /\ pc = "ping"
    /\ \E ok \in BOOLEAN :
        /\ calls' = Append(calls, PingCall(ok))
        /\ out' = IF ok THEN out
                  ELSE Append(out, ConnectFailedMsg("ServerSelectionTimeoutError"))
    /\ pc' = "resolve"
    /\ UNCHANGED <<envFileExists, fileValue, environ, data, uri, client, db,
                   masters, consents, exitCode>>

\* Line 52 (and 53-55 when the command raises): the server answers or not.
Ping ==
    /\ pc = "ping"
    /\ \E ok \in BOOLEAN :
        /\ calls' = Append(calls, PingCall(ok))
        /\ IF ok
           THEN out' = out /\ pc' = "resolve" /\ exitCode' = exitCode
           ELSE /\ out' = Append(out, ConnectFailedMsg("ServerSelectionTimeoutError"))
                /\ Exit(1)
    /\ UNCHANGED <<envFileExists, fileValue, environ, data, uri, client, db,
                   masters, consents>>

\* Line 68 without the cut at '?' of line 69.
ParsedDbNameUncut(u) == SplitLast(u, "/")

\* Lines 68-69.
ParsedDbName(u) == SplitFirst(SplitLast(u, "/"), "?")

\* Lines 57-78.
ResolveDb ==
    /\ pc = "resolve"
    /\ LET default == DefaultDatabaseName(uri)
           dbname == ParsedDbName(uri)
           asked == Append(calls, GetDefaultDatabaseCall)
       IN  IF default # None
           THEN /\ db' = default
                /\ calls' = asked
                /\ out' = Append(out, ConnectedMsg(default))
                /\ pc' = "masters"
                /\ exitCode' = exitCode
           ELSE IF dbname = <<>>
           THEN /\ db' = db
                /\ calls' = Append(asked, SplitCall(uri))
                /\ out' = out \o <<ResolveFailedMsg, ErrorMsg("No database name in URI")>>
                /\ Exit(1)
           ELSE IF ~ValidDbName(dbname)
           THEN /\ db' = db
                /\ calls' = asked \o <<SplitCall(uri), GetItemCall(dbname)>>
                /\ out' = out \o <<ResolveFailedMsg, ErrorMsg("InvalidName")>>
                /\ Exit(1)
           ELSE /\ db' = dbname
                /\ calls' = asked \o <<SplitCall(uri), GetItemCall(dbname)>>
                /\ out' = Append(out, ConnectedMsg(dbname))
                /\ pc' = "masters"
                /\ exitCode' = exitCode
    /\ UNCHANGED <<envFileExists, fileValue, environ, data, uri, client,
                   masters, consents>>

\* Line 81 reading 'uploadmasters' again.
ConsentsCollNameCopied == UploadMasters

\* Line 80.
MastersCollName == UploadMasters
\* Line 81.
ConsentsCollName == UploadConsents

\* Lines 85-88 and 92-95: the empty notice or the serialized documents.
Section(docs, notice) == IF docs = <<>> THEN notice ELSE dumps(docs)

\* Lines 83-88 with a read that removes what it returns
\* (find_one_and_delete in place of find).
QueryMastersDeleting ==
    /\ pc = "masters"
    /\ \E ok \in BOOLEAN :
        /\ calls' = Append(calls, FindCall(db, UploadMasters, MastersLimit, ok))
        /\ IF ok
           THEN LET found == LimitTo(Find(db, UploadMasters), MastersLimit)
                IN  /\ masters' = found
                    /\ data' = IF db = ServerDb
                               THEN [data EXCEPT ![UploadMasters] =
                                        SubSeq(@, Len(found) + 1, Len(@))]
                               ELSE data
                    /\ out' = out \o <<MastersHeader, Section(found, NoMastersMsg)>>
                    /\ pc' = "consents"
                    /\ exitCode' = exitCode
           ELSE /\ masters' = masters
                /\ data' = data
                /\ out' = out \o <<MastersHeader, Traceback("find")>>
                /\ Exit(1)
    /\ UNCHANGED <<envFileExists, fileValue, environ, uri, client, db,
                   consents>>

\* Lines 83-88; an exception of find() is not caught.
QueryMasters ==
    /\ pc = "masters"
    /\ \E ok \in BOOLEAN :
        /\ calls' = Append(calls, FindCall(db, MastersCollName, MastersLimit, ok))
        /\ IF ok
           THEN LET found == LimitTo(Find(db, MastersCollName), MastersLimit)
                IN  /\ masters' = found
                    /\ out' = out \o <<MastersHeader, Section(found, NoMastersMsg)>>
                    /\ pc' = "consents"
                    /\ exitCode' = exitCode
           ELSE /\ masters' = masters
                /\ out' = out \o <<MastersHeader, Traceback("find")>>
                /\ Exit(1)
    /\ UNCHANGED <<envFileExists, fileValue, environ, data, uri, client, db,
                   consents>>

\* Lines 90-95; an exception of find() is not caught.
QueryConsents ==
    /\ pc = "consents"
    /\ \E ok \in BOOLEAN :
        /\ calls' = Append(calls, FindCall(db, ConsentsCollName, ConsentsLimit, ok))
        /\ IF ok
           THEN LET found == LimitTo(Find(db, ConsentsCollName), ConsentsLimit)
                IN  /\ consents' = found
                    /\ out' = out \o <<ConsentsHeader, Section(found, NoConsentsMsg)>>
                    /\ pc' = "close"
                    /\ exitCode' = exitCode
           ELSE /\ consents' = consents
                /\ out' = out \o <<ConsentsHeader, Traceback("find")>>
                /\ Exit(1)
    /\ UNCHANGED <<envFileExists, fileValue, environ, data, uri, client, db,
                   masters>>

\* Line 97 left out.
CloseClientSkipped ==
    /\ pc = "close"
    /\ pc' = "done"
    /\ UNCHANGED <<envFileExists, fileValue, environ, data, uri, client, db,
                   masters, consents, out, calls, exitCode>>

\* Line 97.
CloseClient ==
    /\ pc = "close"
    /\ client' = "closed"
    /\ calls' = Append(calls, CloseCall)
    /\ pc' = "done"
    /\ UNCHANGED <<envFileExists, fileValue, environ, data, uri, db, masters,
                   consents, out, exitCode>>

\* Line 98, and main() returns: the process ends with code 0.
PrintDone ==
    /\ pc = "done"
    /\ out' = Append(out, DoneMsg)
    /\ Exit(0)
    /\ UNCHANGED <<envFileExists, fileValue, environ, data, uri, client, db,
                   masters, consents, calls>>

Next ==
    \/ CheckEnvFile
    \/ LoadDotenv
    \/ GetUri
    \/ Connect
    \/ Ping
    \/ ResolveDb
    \/ QueryMasters
    \/ QueryConsents
    \/ CloseClient
    \/ PrintDone

Spec == Init /\ [][Next]_vars

---------------------------------------------------------------------------
\* Reading the two logs.

Exited == pc = "exited"
HasCall(kind) == \E i \in 1..Len(calls) : calls[i][1] = kind
CountCalls(kind) == Cardinality({i \in 1..Len(calls) : calls[i][1] = kind})
Printed(m) == \E i \in 1..Len(out) : out[i] = m
PingSucceeded == \E i \in 1..Len(calls) : calls[i] = PingCall(TRUE)
PingFailed == \E i \in 1..Len(calls) : calls[i] = PingCall(FALSE)
FindFailed == \E i \in 1..Len(calls) : calls[i][1] = "find" /\ ~calls[i][5]

RECURSIVE PrintedDocs(_, _)
\* The documents of collection c among the first k printed items, in the
\* order they were printed.
PrintedDocs(c, k) ==
    IF k = 0 THEN <<>>
    ELSE PrintedDocs(c, k - 1) \o
         (IF out[k][1] = "json"
          THEN SelectSeq(out[k][2], LAMBDA d : d.coll = c)
          ELSE <<>>)

\* The documents the resolved database holds in collection c.
Held(c) == IF db = ServerDb THEN data[c] ELSE <<>>

---------------------------------------------------------------------------
\* C1: a run with the env file present, MONGODB_URI set, a successful ping,
\* a resolved database, two successful find() calls and at most 50 documents
\* in each collection ends with exit code 0, having printed, in this order,
\* the uploadmasters documents (or the UploadMaster empty notice), then the
\* uploadconsents documents (or the UploadConsent empty notice), and
\* 'Done.' last.
C1_SuccessOutput ==
    (/\ Exited
     /\ envFileExists
     /\ ~Falsy(uri)
     /\ PingSucceeded
     /\ db # None
     /\ ~FindFailed
     /\ Len(Held(UploadMasters)) <= 50
     /\ Len(Held(UploadConsents)) <= 50)
    => /\ exitCode = <<0>>
       /\ out = << ConnectingMsg,
                   ConnectedMsg(db),
                   MastersHeader,
                   IF Len(Held(UploadMasters)) = 0
                   THEN NoMastersMsg ELSE <<"json", Held(UploadMasters)>>,
                   ConsentsHeader,
                   IF Len(Held(UploadConsents)) = 0
                   THEN NoConsentsMsg ELSE <<"json", Held(UploadConsents)>>,
                   DoneMsg >>

C1_Witness ==
    /\ Exited
    /\ exitCode = <<0>>
    /\ db = ServerDb
    /\ Len(data[UploadMasters]) = 0
    /\ Len(data[UploadConsents]) = 50
    /\ Len(PrintedDocs(UploadConsents, Len(out))) = 50

\* C2: the tool never has printed more than 50 documents of one collection,
\* and a successful run on a collection of more than 50 documents has printed
\* exactly its first 50, in the order the unfiltered query returns them.
C2_AtMostFifty ==
    \A c \in Collections :
        /\ Len(PrintedDocs(c, Len(out))) <= 50
        /\ (Exited /\ exitCode = <<0>> /\ Len(Held(c)) > 50)
            => PrintedDocs(c, Len(out)) = SubSeq(Held(c), 1, 50)

C2_Witness ==
    /\ Exited
    /\ exitCode = <<0>>
    /\ Len(Held(UploadMasters)) = 52
    /\ Len(Held(UploadConsents)) = 51
    /\ Len(PrintedDocs(UploadMasters, Len(out))) = 50

\* C3: whenever the env file exists but does not define MONGODB_URI, no
\* client is created and the process ends with exit code 1 after printing
\* the missing-variable message, whatever the process environment held.
C3_MissingVariableExits ==
    (envFileExists /\ fileValue = None)
    => /\ client = "none"
       /\ ~HasCall("MongoClient")
       /\ Exited => (exitCode = <<1>> /\ out = <<UriNotSetMsg>>)

\* The connection string names no database: nothing stands between the '/'
\* after the hosts and the '?', or there is no such '/'.
NamesNoDatabase(u) == SplitFirst(PathPart(u), "?") = <<>>

\* C4: whenever the connection string has no default database and no
\* trailing path segment naming one, database resolution prints the
\* resolution-failure message and exits with code 1, and neither collection
\* is queried.
C4_NoDatabaseNameExits ==
    (HasCall("get_default_database") /\ NamesNoDatabase(uri))
    => /\ Exited
       /\ exitCode = <<1>>
       /\ Printed(ResolveFailedMsg)
       /\ ~HasCall("find")

BothSectionsPrinted ==
    /\ CountCalls("find") = 2
    /\ \E i \in 1..Len(out) :
            /\ out[i] = MastersHeader
            /\ i < Len(out)
            /\ out[i + 1][1] \in {"json", NoMastersMsg[1]}
    /\ \E i \in 1..Len(out) :
            /\ out[i] = ConsentsHeader
            /\ i < Len(out)
            /\ out[i + 1][1] \in {"json", NoConsentsMsg[1]}

NothingQueriedOrPrinted ==
    /\ ~HasCall("find")
    /\ \A i \in 1..Len(out) :
            out[i][1] \notin {"json", MastersHeader[1], ConsentsHeader[1],
                              NoMastersMsg[1], NoConsentsMsg[1]}

\* C5: no partial results: a run that has ended either queried both
\* collections and printed both result sections, or ended before any
\* collection was queried and before any section header or document was
\* printed.
C5_NoPartialResults ==
    Exited => (BothSectionsPrinted \/ NothingQueriedOrPrinted)

\* C6: when the env file is missing, the tool prints the message naming the
\* expected path and exits with code 1 as its first and only action: no
\* load_dotenv, no read of MONGODB_URI, no client, no ping, no query.
C6_MissingEnvFile ==
    (~envFileExists /\ pc # "start")
    => /\ Exited
       /\ exitCode = <<1>>
       /\ out = <<EnvFileNotFoundMsg>>
       /\ calls = <<ExistsCall>>
       /\ uri = None
       /\ client = "none"

C6_Witness == ~envFileExists /\ Exited /\ environ = ShellURI

ConnectionFailed ==
    \/ HasCall("MongoClient") /\ ~ValidURI(uri)
    \/ PingFailed

\* C7: when client creation or the ping fails, the tool prints the error
\* and exits with code 1 without starting database-name resolution or
\* querying a collection; the ping is attempted at most once; every
\* collection query is preceded by a successful ping.
C7_ConnectFailureIsTerminal ==
    /\ ConnectionFailed
        => /\ Exited
           /\ exitCode = <<1>>
           /\ out[Len(out)][1] = ConnectFailedMsg("")[1]
           /\ ~HasCall("get_default_database")
           /\ ~HasCall("split")
           /\ ~HasCall("find")
    /\ CountCalls("ping") <= 1
    /\ \A i \in 1..Len(calls) :
            calls[i][1] = "find"
            => \E j \in 1..(i - 1) : calls[j] = PingCall(TRUE)

C7_Witness == Exited /\ PingFailed /\ client = "open"

ResolutionFailed == Printed(ResolveFailedMsg)

\* C8: the client is closed exactly once, after both result sections were
\* printed and before 'Done.' is printed, so a run that ends with exit code
\* 0 ends with the client closed; a run that ends with exit code 1 never
\* called close(), and after a ping failure or a resolution failure the
\* client is still open.
C8_CloseOnSuccessOnly ==
    /\ CountCalls("close") <= 1
    /\ client = "closed" <=> HasCall("close")
    /\ HasCall("close") => BothSectionsPrinted
    /\ Printed(DoneMsg) => client = "closed"
    /\ (Exited /\ exitCode = <<0>>) => (client = "closed" /\ Printed(DoneMsg))
    /\ (Exited /\ exitCode = <<1>>) => ~HasCall("close")
    /\ (Exited /\ (PingFailed \/ ResolutionFailed)) => client = "open"

C8_Witness ==
    /\ client = "closed"
    /\ ~Printed(DoneMsg)
    /\ Len(PrintedDocs(UploadConsents, Len(out))) > 0

IsDbOperation(c) == c[1] \in {"ping", "find"}
DbOperations == SelectSeq(calls, IsDbOperation)
OperationsInOrder ==
    LET ops == DbOperations
    IN  /\ Len(ops) <= 3
        /\ Len(ops) >= 1 => ops[1][1] = "ping"
        /\ Len(ops) >= 2 =>
              /\ ops[2][1] = "find"
              /\ ops[2][2] = db
              /\ ops[2][3] = "uploadmasters"
              /\ ops[2][4] = 50
        /\ Len(ops) >= 3 =>
              /\ ops[3][1] = "find"
              /\ ops[3][2] = db
              /\ ops[3][3] = "uploadconsents"
              /\ ops[3][4] = 50

\* C9: the only database operations of a run are one ping, then at most one
\* unfiltered find limited to 50 on 'uploadmasters', then at most one on
\* 'uploadconsents'; no step of the tool changes the contents of the
\* collections.
C9_OnlyReads == []OperationsInOrder /\ [][data' = data]_vars

C9_Witness ==
    /\ Exited
    /\ Len(DbOperations) = 3
    /\ Len(data[UploadMasters]) > 0
    /\ masters # <<>>
    /\ masters # None

\* The text after the last '/' of u.
TextAfterLastSlash(u) ==
    CHOOSE s \in {SubSeq(u, k, Len(u)) : k \in 1..(Len(u) + 1)} :
        /\ ~Contains(s, "/")
        /\ Len(s) = Len(u) \/ u[Len(u) - Len(s)] = "/"

\* s cut at its first '?'.
CutAtFirstQuestionMark(s) ==
    CHOOSE t \in {SubSeq(s, 1, k) : k \in 0..Len(s)} :
        /\ ~Contains(t, "?")
        /\ Len(t) = Len(s) \/ s[Len(t) + 1] = "?"

====
